---- MODULE Spec2Model ----
(***************************************************************************)
(* Model of the spill-aware sort sink                                      *)
(* (be/src/pipeline/exec/spill_sort_sink_operator.cpp).                    *)
(*                                                                         *)
(* Two threads act on one sink instance: the pipeline thread, which runs   *)
(* sink / revoke_memory / close one call at a time (pc), and the closure   *)
(* handed to the spill io thread pool (bg_pc).  Every handler is cut into  *)
(* steps at the points where the other thread can observe or change the    *)
(* fields it uses.                                                         *)
(*                                                                         *)
(* DCHECK(!_is_spilling) is modelled as the assertion it is: entering      *)
(* revoke_memory with _is_spilling set aborts the process (dcheck_failed). *)
(***************************************************************************)
EXTENDS Integers, Sequences, FiniteSets, TLC

\* ---------------------------------------------------------------- bounds
MaxBlockRows ==
    1
MaxSorterRows ==
    2
MaxCalls ==
    3
MaxRuns ==
    2

\* ---------------------------------------------------------------- values
\* Sort keys of the rows: two distinct values, enough to tell an ordered
\* run from an unordered one.
Keys ==
    {1, 2}

\* vectorized::Block contents: the sort keys of its rows.
Blocks ==
    UNION {[1..n -> Keys] : n \in 0..MaxBlockRows}

OK ==
    "OK"

\* No in-flight stream (_spilling_stream is an empty shared_ptr).
NoStream ==
    0

\* Errors of the collaborators, one per call site.
SinkErr ==
    "sorter_sink_error"
PrepareForReadErr ==
    "prepare_for_read_error"
RegisterErr ==
    "register_spill_stream_error"
PrepareSpillErr ==
    "prepare_spill_error"
SubmitErr ==
    "submit_func_error"
PrepareForSpillErr ==
    "prepare_for_spill_error"
ReadErr ==
    "merge_sort_read_error"
WriteErr ==
    "spill_block_error"

VARIABLES
    pc,                \* position of the pipeline thread
    in_block,          \* sink's in_block argument of the call in progress
    arg_eos,           \* sink's eos argument of the call in progress
    ret,               \* Status returned by the last finished call
    ncalls,            \* number of sink / revoke_memory calls made
    enable_spill,      \* parent._enable_spill, _shared_state->enable_spill
    sink_status,       \* _shared_state->sink_status
    batch_row_count,   \* _shared_state->spill_block_batch_row_count
    sorted_streams,    \* _shared_state->sorted_streams (ids of streams)
    streams,           \* streams registered with the spill stream manager
    spilling_stream,   \* _spilling_stream
    eos,               \* _eos
    is_spilling,       \* _is_spilling
    dep_ready,         \* _dependency (sink side): FALSE = blocked
    ready_to_read,     \* _dependency->set_ready_to_read() was called
    read_ready_count,  \* number of set_ready_to_read() calls
    finish_ready,      \* _finish_dependency: FALSE = blocked
    sorter,            \* the in-memory sorter of _sort_sink_operator
    bg_pc,             \* position of the closure on the spill io thread
    bg_eos,            \* the closure's local `eos`
    bg_block,          \* the closure's local `block`
    bg_exit,           \* how the last closure left its drain loop
    bg_run,            \* the stream the last closure was submitted for
    spill_eos,         \* _eos as revoke_memory read it at line 214
    cancelled,         \* state->is_cancelled()
    dcheck_failed,     \* DCHECK(!_is_spilling) fired
    input_log          \* history: the rows sink accepted, while the run
                       \* is free of failure and cancellation

vars ==
    <<pc, in_block, arg_eos, ret, ncalls, enable_spill, sink_status,
      batch_row_count, sorted_streams, streams, spilling_stream, eos,
      is_spilling, dep_ready, ready_to_read, read_ready_count, finish_ready,
      sorter, bg_pc, bg_eos, bg_block, bg_exit, bg_run, spill_eos, cancelled,
      dcheck_failed, input_log>>

pipeVars ==
    <<pc, in_block, arg_eos, ret, ncalls>>

bgVars ==
    <<bg_pc, bg_eos, bg_block, bg_exit, bg_run>>

\* ------------------------------------------------------------ the sorter
\* Insert key k into the ascending sequence s.
RECURSIVE Insert(_, _)
Insert(s, k) ==
    IF s = <<>> THEN <<k>>
    ELSE IF k <= Head(s) THEN <<k>> \o s
    ELSE <<Head(s)>> \o Insert(Tail(s), k)

\* The rows of `rows` added to the ascending sequence `acc`.
RECURSIVE SortInto(_, _)
SortInto(acc, rows) ==
    IF rows = <<>> THEN acc
    ELSE SortInto(Insert(acc, Head(rows)), Tail(rows))

EmptySorter ==
    [unsorted |-> <<>>, sorted |-> <<>>]

\* Sorter::data_size(): rows held in memory.
data_size(s) ==
    Len(s.unsorted) + Len(s.sorted)

\* SortSinkOperatorX::sink: the sorter appends the block.
sorter_append(s, b) ==
    [s EXCEPT !.unsorted = @ \o b]

\* SortSinkOperatorX::prepare_for_spill: everything buffered becomes one
\* ascending sequence under the merge cursor.
sorter_prepare_for_spill(s) ==
    [unsorted |-> <<>>, sorted |-> SortInto(s.sorted, s.unsorted)]

\* SortSinkOperatorX::merge_sort_read_for_spill(batch_size): the next
\* batch_size rows in order, and whether the sorter is exhausted.
read_count(s, n) ==
    IF n < Len(s.sorted) THEN n ELSE Len(s.sorted)

merge_sort_read_block(s, n) ==
    SubSeq(s.sorted, 1, read_count(s, n))

merge_sort_read_rest(s, n) ==
    [s EXCEPT !.sorted = SubSeq(@, read_count(s, n) + 1, Len(@))]

\* SortSinkOperatorX::get_revocable_mem_size
get_revocable_mem_size(s) ==
    data_size(s)

\* SpillSortSharedState::update_spill_block_batch_row_count: fixed by the
\* first non-empty block.
update_spill_block_batch_row_count(cur, b) ==
    IF cur = 0 THEN Len(b) ELSE cur

\* ----------------------------------------------------------- the streams
NewStream ==
    [blocks |-> <<>>, ended |-> FALSE, status |-> OK]

\* SpillStream::end_spill(status)
end_spill(st, id, status) ==
    IF id = NoStream THEN st
    ELSE [st EXCEPT ![id].ended = TRUE, ![id].status = status]

\* SpillStream::spill_block(block, eos)
spill_block(st, id, b) ==
    [st EXCEPT ![id].blocks = Append(@, b)]

\* SpillSortSharedState::clear(): all runs are dropped.
clear(runs) ==
    <<>>

\* UINT64_MAX, held at the widest integer the checker computes with.
UINT64_MAX ==
    2147483647

\* revocable_mem_size without the test of the shared status (lines 156-158).
revocable_mem_size_NoStatusTest ==
    IF ~enable_spill THEN 0
    ELSE get_revocable_mem_size(sorter)

\* SpillSortSinkOperatorX::revocable_mem_size
revocable_mem_size ==
    IF ~enable_spill THEN 0
    ELSE IF sink_status # OK THEN UINT64_MAX
    ELSE get_revocable_mem_size(sorter)

\* ------------------------------------------------------------ history
\* The history once the run has seen a failure, a cancellation, or a sink
\* call after the end-of-stream call: the rows are no longer tracked.
Dirty ==
    [clean |-> FALSE, rows |-> <<>>]

\* The history after a step that fails when f is true.
Taint(log, f) ==
    IF f THEN Dirty ELSE log

\* The history after sink accepted block b: the ascending sequence of all
\* rows accepted so far.
Observe(log, b) ==
    IF log.clean THEN [log EXCEPT !.rows = SortInto(@, b)] ELSE log

\* ------------------------------------------------------------------ Init
Init ==
    /\ pc = "idle"
    /\ in_block = <<>>
    /\ arg_eos = FALSE
    /\ ret = "none"
    /\ ncalls = 0
    /\ enable_spill \in BOOLEAN
    /\ sink_status = OK
    /\ batch_row_count = 0
    /\ sorted_streams = <<>>
    /\ streams = <<>>
    /\ spilling_stream = NoStream
    /\ eos = FALSE
    /\ is_spilling = FALSE
    /\ dep_ready = TRUE
    /\ ready_to_read = FALSE
    /\ read_ready_count = 0
    /\ finish_ready = ~enable_spill
    /\ sorter = EmptySorter
    /\ bg_pc = "none"
    /\ bg_eos = FALSE
    /\ bg_block = <<>>
    /\ bg_exit = "none"
    /\ bg_run = NoStream
    /\ spill_eos = FALSE
    /\ cancelled = FALSE
    /\ dcheck_failed = FALSE
    /\ input_log = [clean |-> TRUE, rows |-> <<>>]

\* The scheduler starts a call only when the pipeline thread is between
\* calls, the operator is not torn down and its dependency is not blocked.
CanCall ==
    /\ pc = "idle"
    /\ ~dcheck_failed
    /\ dep_ready
    /\ ncalls < MaxCalls

\* The call in progress returns status s; its arguments go out of scope.
Return(s) ==
    /\ pc' = "idle"
    /\ ret' = s
    /\ in_block' = <<>>
    /\ arg_eos' = FALSE

\* The call in progress moves on to position p.
Goto(p) ==
    /\ pc' = p
    /\ UNCHANGED <<ret, in_block, arg_eos>>

\* SinkEnter without RETURN_IF_ERROR(sink_status) of line 165.
SinkEnter_NoStatusTest(b, e) ==
    /\ CanCall
    /\ data_size(sorter) + Len(b) <= MaxSorterRows
    /\ e => Len(streams) < MaxRuns
    /\ ncalls' = ncalls + 1
    /\ pc' = "sink_ingest"
    /\ ret' = "none"
    /\ in_block' = b
    /\ arg_eos' = e
    /\ batch_row_count' =
         IF Len(b) > 0
         THEN update_spill_block_batch_row_count(batch_row_count, b)
         ELSE batch_row_count
    /\ input_log' = Taint(input_log, eos)
    /\ UNCHANGED <<spill_eos, enable_spill, sink_status, sorted_streams,
                   streams, spilling_stream, eos, is_spilling, dep_ready,
                   ready_to_read, read_ready_count, finish_ready, sorter,
                   bgVars, cancelled, dcheck_failed>>

\* ------------------------------------------------------------------ sink
\* sink(), lines 163-169: the status check and the batch row count.
SinkEnter(b, e) ==
    /\ CanCall
    /\ data_size(sorter) + Len(b) <= MaxSorterRows
    /\ e => Len(streams) < MaxRuns
    /\ ncalls' = ncalls + 1
    /\ IF sink_status # OK
       THEN /\ Return(sink_status)
            /\ UNCHANGED batch_row_count
       ELSE /\ pc' = "sink_ingest"
            /\ ret' = "none"
            /\ in_block' = b
            /\ arg_eos' = e
            /\ batch_row_count' =
                 IF Len(b) > 0
                 THEN update_spill_block_batch_row_count(batch_row_count, b)
                 ELSE batch_row_count
    /\ input_log' = Taint(input_log, eos)
    /\ UNCHANGED <<spill_eos, enable_spill, sink_status, sorted_streams,
                   streams, spilling_stream, eos, is_spilling, dep_ready,
                   ready_to_read, read_ready_count, finish_ready, sorter,
                   bgVars, cancelled, dcheck_failed>>

\* sink(), lines 170-174: _eos = eos, then the sorter takes the block.
SinkIngest(fails) ==
    /\ pc = "sink_ingest"
    /\ eos' = arg_eos
    /\ IF fails
       THEN /\ Return(SinkErr)
            /\ UNCHANGED sorter
       ELSE /\ sorter' = sorter_append(sorter, in_block)
            /\ IF arg_eos THEN Goto("sink_eos") ELSE Return(OK)
    /\ input_log' = IF fails THEN Dirty ELSE Observe(input_log, in_block)
    /\ UNCHANGED <<spill_eos, ncalls, enable_spill, sink_status,
                   batch_row_count, sorted_streams, streams, spilling_stream,
                   is_spilling, dep_ready, ready_to_read, read_ready_count,
                   finish_ready, bgVars, cancelled, dcheck_failed>>

\* _dependency->set_ready_to_read()
set_ready_to_read ==
    /\ ready_to_read' = TRUE
    /\ read_ready_count' = read_ready_count + 1

\* SinkEos without the test of line 176: with spill enabled the end of
\* stream always goes to revoke_memory.
SinkEos_NoMemCheck(fails) ==
    /\ pc = "sink_eos"
    /\ IF enable_spill
       THEN /\ ~fails
            /\ Goto("sink_revoke")
            /\ UNCHANGED <<ready_to_read, read_ready_count>>
       ELSE IF fails
            THEN /\ Return(PrepareForReadErr)
                 /\ UNCHANGED <<ready_to_read, read_ready_count>>
            ELSE /\ set_ready_to_read
                 /\ Return(OK)
    /\ input_log' = Taint(input_log, fails)
    /\ UNCHANGED <<spill_eos, ncalls, enable_spill, sink_status,
                   batch_row_count, sorted_streams, streams, spilling_stream,
                   eos, is_spilling, dep_ready, finish_ready, sorter, bgVars,
                   cancelled, dcheck_failed>>

\* sink(), lines 174-186: the end-of-stream dispatch.
SinkEos(fails) ==
    /\ pc = "sink_eos"
    /\ IF enable_spill
       THEN /\ ~fails
            /\ IF revocable_mem_size > 0
               THEN /\ Goto("sink_revoke")
                    /\ UNCHANGED <<ready_to_read, read_ready_count>>
               ELSE /\ set_ready_to_read
                    /\ Return(OK)
       ELSE IF fails
            THEN /\ Return(PrepareForReadErr)
                 /\ UNCHANGED <<ready_to_read, read_ready_count>>
            ELSE /\ set_ready_to_read
                 /\ Return(OK)
    /\ input_log' = Taint(input_log, fails)
    /\ UNCHANGED <<spill_eos, ncalls, enable_spill, sink_status,
                   batch_row_count, sorted_streams, streams, spilling_stream,
                   eos, is_spilling, dep_ready, finish_ready, sorter, bgVars,
                   cancelled, dcheck_failed>>

\* --------------------------------------------------------- revoke_memory
\* SpillSortSinkLocalState::revoke_memory, lines 190-195.
RevokeBegin ==
    IF is_spilling
    THEN /\ dcheck_failed' = TRUE
         /\ input_log' = Dirty
         /\ Goto("aborted")
         /\ UNCHANGED is_spilling
    ELSE /\ is_spilling' = TRUE
         /\ UNCHANGED <<dcheck_failed, input_log>>
         /\ IF sink_status # OK
            THEN Return(sink_status)
            ELSE Goto("rv_register")

\* sink(), line 177: revoke_memory(state) at end of stream.
SinkRevoke ==
    /\ pc = "sink_revoke"
    /\ RevokeBegin
    /\ UNCHANGED <<spill_eos, ncalls, enable_spill, sink_status,
                   batch_row_count, sorted_streams, streams, spilling_stream,
                   eos, dep_ready, ready_to_read, read_ready_count,
                   finish_ready, sorter, bgVars, cancelled>>

\* SpillSortSinkOperatorX::revoke_memory, lines 144-150, called by the
\* scheduler under memory pressure.
RevokeMemory ==
    /\ CanCall
    /\ Len(streams) < MaxRuns
    /\ ncalls' = ncalls + 1
    /\ IF ~enable_spill
       THEN /\ Return(OK)
            /\ UNCHANGED <<is_spilling, dcheck_failed, input_log>>
       ELSE RevokeBegin
    /\ UNCHANGED <<spill_eos, enable_spill, sink_status, batch_row_count,
                   sorted_streams, streams, spilling_stream, eos, dep_ready,
                   ready_to_read, read_ready_count, finish_ready, sorter,
                   bgVars, cancelled>>

\* revoke_memory, lines 197-201: register_spill_stream.
RvRegister(fails) ==
    /\ pc = "rv_register"
    /\ IF fails
       THEN /\ Return(RegisterErr)
            /\ UNCHANGED <<streams, spilling_stream>>
       ELSE /\ streams' = Append(streams, NewStream)
            /\ spilling_stream' = Len(streams) + 1
            /\ Goto("rv_prepare")
    /\ input_log' = Taint(input_log, fails)
    /\ UNCHANGED <<spill_eos, ncalls, enable_spill, sink_status,
                   batch_row_count, sorted_streams, eos, is_spilling,
                   dep_ready, ready_to_read, read_ready_count, finish_ready,
                   sorter, bgVars, cancelled, dcheck_failed>>

\* revoke_memory, lines 207-209: prepare_spill, then the stream is put on
\* the shared list.
RvPrepareSpill(fails) ==
    /\ pc = "rv_prepare"
    /\ IF fails
       THEN /\ Return(PrepareSpillErr)
            /\ UNCHANGED sorted_streams
       ELSE /\ sorted_streams' = Append(sorted_streams, spilling_stream)
            /\ Goto("rv_block")
    /\ input_log' = Taint(input_log, fails)
    /\ UNCHANGED <<spill_eos, ncalls, enable_spill, sink_status,
                   batch_row_count, streams, spilling_stream, eos,
                   is_spilling, dep_ready, ready_to_read, read_ready_count,
                   finish_ready, sorter, bgVars, cancelled, dcheck_failed>>

\* revoke_memory, lines 214-216: block the dependency unless at eos.
RvBlock ==
    /\ pc = "rv_block"
    /\ spill_eos' = eos
    /\ dep_ready' = IF ~eos THEN FALSE ELSE dep_ready
    /\ Goto("rv_submit")
    /\ UNCHANGED input_log
    /\ UNCHANGED <<ncalls, enable_spill, sink_status, batch_row_count,
                   sorted_streams, streams, spilling_stream, eos,
                   is_spilling, ready_to_read, read_ready_count,
                   finish_ready, sorter, bgVars, cancelled, dcheck_failed>>

\* RvSubmit without line 287: a failed submission leaves the dependency as
\* line 215 set it.
RvSubmit_NoRearm(fails) ==
    /\ pc = "rv_submit"
    /\ IF fails
       THEN /\ is_spilling' = FALSE
            /\ streams' = end_spill(streams, spilling_stream, SubmitErr)
            /\ UNCHANGED dep_ready
            /\ Return(SubmitErr)
            /\ UNCHANGED bgVars
       ELSE /\ bg_pc' = "prepare"
            /\ bg_eos' = FALSE
            /\ bg_block' = <<>>
            /\ bg_exit' = "none"
            /\ bg_run' = spilling_stream
            /\ Return(OK)
            /\ UNCHANGED <<is_spilling, streams, dep_ready>>
    /\ input_log' = Taint(input_log, fails)
    /\ UNCHANGED <<spill_eos, ncalls, enable_spill, sink_status,
                   batch_row_count, sorted_streams, spilling_stream, eos,
                   ready_to_read, read_ready_count, finish_ready, sorter,
                   cancelled, dcheck_failed>>

\* revoke_memory, lines 217-221 and 282-290: submit_func and its failure.
RvSubmit(fails) ==
    /\ pc = "rv_submit"
    /\ IF fails
       THEN /\ is_spilling' = FALSE
            /\ streams' = end_spill(streams, spilling_stream, SubmitErr)
            /\ dep_ready' = IF ~eos THEN TRUE ELSE dep_ready
            /\ Return(SubmitErr)
            /\ UNCHANGED bgVars
       ELSE /\ bg_pc' = "prepare"
            /\ bg_eos' = FALSE
            /\ bg_block' = <<>>
            /\ bg_exit' = "none"
            /\ bg_run' = spilling_stream
            /\ Return(OK)
            /\ UNCHANGED <<is_spilling, streams, dep_ready>>
    /\ input_log' = Taint(input_log, fails)
    /\ UNCHANGED <<spill_eos, ncalls, enable_spill, sink_status,
                   batch_row_count, sorted_streams, spilling_stream, eos,
                   ready_to_read, read_ready_count, finish_ready, sorter,
                   cancelled, dcheck_failed>>

\* ------------------------------------------- the closure on the io thread
\* BgPrepareForSpill whose success leaves the Sorter as it was: the call of
\* line 252 reports success without building the merge cursor.
BgPrepareForSpill_NoCursor(fails) ==
    /\ bg_pc = "prepare"
    /\ ~dcheck_failed
    /\ IF fails
       THEN /\ sink_status' = PrepareForSpillErr
            /\ bg_pc' = "defer"
            /\ bg_exit' = "error"
            /\ UNCHANGED sorter
       ELSE /\ sink_status' = OK
            /\ UNCHANGED sorter
            /\ bg_pc' = "loop"
            /\ UNCHANGED bg_exit
    /\ input_log' = Taint(input_log, fails)
    /\ UNCHANGED <<spill_eos, bg_run, pipeVars, enable_spill,
                   batch_row_count, sorted_streams, streams, spilling_stream,
                   eos, is_spilling, dep_ready, ready_to_read,
                   read_ready_count, finish_ready, bg_eos, bg_block,
                   cancelled, dcheck_failed>>

\* closure, lines 252-257: prepare_for_spill.
BgPrepareForSpill(fails) ==
    /\ bg_pc = "prepare"
    /\ ~dcheck_failed
    /\ IF fails
       THEN /\ sink_status' = PrepareForSpillErr
            /\ bg_pc' = "defer"
            /\ bg_exit' = "error"
            /\ UNCHANGED sorter
       ELSE /\ sink_status' = OK
            /\ sorter' = sorter_prepare_for_spill(sorter)
            /\ bg_pc' = "loop"
            /\ UNCHANGED bg_exit
    /\ input_log' = Taint(input_log, fails)
    /\ UNCHANGED <<spill_eos, bg_run, pipeVars, enable_spill,
                   batch_row_count, sorted_streams, streams, spilling_stream,
                   eos, is_spilling, dep_ready, ready_to_read,
                   read_ready_count, finish_ready, bg_eos, bg_block,
                   cancelled, dcheck_failed>>

\* closure, line 261: while (!eos && !state->is_cancelled()).
BgLoop ==
    /\ bg_pc = "loop"
    /\ ~dcheck_failed
    /\ IF ~bg_eos /\ ~cancelled
       THEN /\ bg_pc' = "read"
            /\ UNCHANGED bg_exit
       ELSE /\ bg_pc' = "reset"
            /\ bg_exit' = IF bg_eos THEN "eos" ELSE "cancelled"
    /\ UNCHANGED input_log
    /\ UNCHANGED <<spill_eos, bg_run, pipeVars, enable_spill, sink_status,
                   batch_row_count, sorted_streams, streams, spilling_stream,
                   eos, is_spilling, dep_ready, ready_to_read,
                   read_ready_count, finish_ready, sorter, bg_eos, bg_block,
                   cancelled, dcheck_failed>>

\* closure, lines 262-269: merge_sort_read_for_spill.
BgRead(fails) ==
    /\ bg_pc = "read"
    /\ ~dcheck_failed
    /\ IF fails
       THEN /\ sink_status' = ReadErr
            /\ bg_pc' = "defer"
            /\ bg_exit' = "error"
            /\ UNCHANGED <<sorter, bg_eos, bg_block>>
       ELSE /\ sink_status' = OK
            /\ bg_block' = merge_sort_read_block(sorter, batch_row_count)
            /\ sorter' = merge_sort_read_rest(sorter, batch_row_count)
            /\ bg_eos' = (sorter'.sorted = <<>>)
            /\ bg_pc' = "write"
            /\ UNCHANGED bg_exit
    /\ input_log' = Taint(input_log, fails)
    /\ UNCHANGED <<spill_eos, bg_run, pipeVars, enable_spill,
                   batch_row_count, sorted_streams, streams, spilling_stream,
                   eos, is_spilling, dep_ready, ready_to_read,
                   read_ready_count, finish_ready, cancelled, dcheck_failed>>

\* closure, lines 270-276: spill_block, clear_column_data.
BgWrite(fails) ==
    /\ bg_pc = "write"
    /\ ~dcheck_failed
    /\ IF fails
       THEN /\ sink_status' = WriteErr
            /\ bg_pc' = "defer"
            /\ bg_exit' = "error"
            /\ UNCHANGED <<streams, bg_block>>
       ELSE /\ sink_status' = OK
            /\ streams' = spill_block(streams, spilling_stream, bg_block)
            /\ bg_block' = <<>>
            /\ bg_pc' = "loop"
            /\ UNCHANGED bg_exit
    /\ input_log' = Taint(input_log, fails)
    /\ UNCHANGED <<spill_eos, bg_run, pipeVars, enable_spill,
                   batch_row_count, sorted_streams, spilling_stream, eos,
                   is_spilling, dep_ready, ready_to_read, read_ready_count,
                   finish_ready, sorter, bg_eos, cancelled, dcheck_failed>>

\* closure, line 278: _sort_sink_operator->reset.
BgReset ==
    /\ bg_pc = "reset"
    /\ ~dcheck_failed
    /\ sorter' = EmptySorter
    /\ bg_pc' = "defer"
    /\ UNCHANGED input_log
    /\ UNCHANGED <<spill_eos, bg_run, pipeVars, enable_spill, sink_status,
                   batch_row_count, sorted_streams, streams, spilling_stream,
                   eos, is_spilling, dep_ready, ready_to_read,
                   read_ready_count, finish_ready, bg_eos, bg_block, bg_exit,
                   cancelled, dcheck_failed>>

\* BgDeferEndSpill without lines 234-236: a failed drain leaves the run
\* list as it is.
BgDeferEndSpill_NoClear ==
    /\ bg_pc = "defer"
    /\ ~dcheck_failed
    /\ streams' = end_spill(streams, spilling_stream, sink_status)
    /\ UNCHANGED sorted_streams
    /\ bg_pc' = "cleanup"
    /\ UNCHANGED input_log
    /\ UNCHANGED <<spill_eos, bg_run, pipeVars, enable_spill, sink_status,
                   batch_row_count, spilling_stream, eos, is_spilling,
                   dep_ready, ready_to_read, read_ready_count, finish_ready,
                   sorter, bg_eos, bg_block, bg_exit, cancelled,
                   dcheck_failed>>

\* Defer, lines 233-236: end_spill(sink_status), clear() on failure.
BgDeferEndSpill ==
    /\ bg_pc = "defer"
    /\ ~dcheck_failed
    /\ streams' = end_spill(streams, spilling_stream, sink_status)
    /\ sorted_streams' =
         IF sink_status # OK THEN clear(sorted_streams) ELSE sorted_streams
    /\ bg_pc' = "cleanup"
    /\ UNCHANGED input_log
    /\ UNCHANGED <<spill_eos, bg_run, pipeVars, enable_spill, sink_status,
                   batch_row_count, spilling_stream, eos, is_spilling,
                   dep_ready, ready_to_read, read_ready_count, finish_ready,
                   sorter, bg_eos, bg_block, bg_exit, cancelled,
                   dcheck_failed>>

\* BgDeferLocked with set_ready() of the finish dependency moved out of the
\* `if (_eos)` of line 242.
BgDeferLocked_AlwaysFinish ==
    /\ bg_pc = "cleanup"
    /\ ~dcheck_failed
    /\ spilling_stream' = NoStream
    /\ is_spilling' = FALSE
    /\ IF eos
       THEN /\ set_ready_to_read
            /\ finish_ready' = TRUE
            /\ UNCHANGED dep_ready
       ELSE /\ dep_ready' = TRUE
            /\ finish_ready' = TRUE
            /\ UNCHANGED <<ready_to_read, read_ready_count>>
    /\ IF pc = "close_wait"
       THEN pc' = "closed" /\ ret' = OK
       ELSE UNCHANGED <<pc, ret>>
    /\ bg_pc' = "none"
    /\ bg_eos' = FALSE
    /\ bg_block' = <<>>
    /\ UNCHANGED input_log
    /\ UNCHANGED <<spill_eos, bg_run, in_block, arg_eos, ncalls,
                   enable_spill, sink_status, batch_row_count,
                   sorted_streams, streams, eos, sorter, bg_exit, cancelled,
                   dcheck_failed>>

\* Defer, lines 238-249: the section under _spill_lock.  notify_one wakes
\* close() when it waits.
BgDeferLocked ==
    /\ bg_pc = "cleanup"
    /\ ~dcheck_failed
    /\ spilling_stream' = NoStream
    /\ is_spilling' = FALSE
    /\ IF eos
       THEN /\ set_ready_to_read
            /\ finish_ready' = TRUE
            /\ UNCHANGED dep_ready
       ELSE /\ dep_ready' = TRUE
            /\ UNCHANGED <<ready_to_read, read_ready_count, finish_ready>>
    /\ IF pc = "close_wait"
       THEN pc' = "closed" /\ ret' = OK
       ELSE UNCHANGED <<pc, ret>>
    /\ bg_pc' = "none"
    /\ bg_eos' = FALSE
    /\ bg_block' = <<>>
    /\ UNCHANGED input_log
    /\ UNCHANGED <<spill_eos, bg_run, in_block, arg_eos, ncalls,
                   enable_spill, sink_status, batch_row_count,
                   sorted_streams, streams, eos, sorter, bg_exit, cancelled,
                   dcheck_failed>>

\* ----------------------------------------------------------------- close
\* close(), lines 76-84: the check under _spill_lock.
Close ==
    /\ pc = "idle"
    /\ ~dcheck_failed
    /\ IF is_spilling
       THEN pc' = "close_wait" /\ ret' = "none"
       ELSE pc' = "closed" /\ ret' = OK
    /\ UNCHANGED input_log
    /\ UNCHANGED <<spill_eos, in_block, arg_eos, ncalls, enable_spill,
                   sink_status, batch_row_count, sorted_streams, streams,
                   spilling_stream, eos, is_spilling, dep_ready,
                   ready_to_read, read_ready_count, finish_ready, sorter,
                   bgVars, cancelled, dcheck_failed>>

\* close(), line 80: _spill_cv.wait(lk) has no predicate, so a spurious
\* wakeup of the condition variable ends the wait as well.
CloseSpuriousWakeup ==
    /\ pc = "close_wait"
    /\ ~dcheck_failed
    /\ pc' = "closed"
    /\ ret' = OK
    /\ UNCHANGED input_log
    /\ UNCHANGED <<spill_eos, in_block, arg_eos, ncalls, enable_spill,
                   sink_status, batch_row_count, sorted_streams, streams,
                   spilling_stream, eos, is_spilling, dep_ready,
                   ready_to_read, read_ready_count, finish_ready, sorter,
                   bgVars, cancelled, dcheck_failed>>

\* The query is cancelled: state->is_cancelled() turns true.
Cancel ==
    /\ ~cancelled
    /\ ~dcheck_failed
    /\ cancelled' = TRUE
    /\ input_log' = Dirty
    /\ UNCHANGED <<spill_eos, pipeVars, enable_spill, sink_status,
                   batch_row_count, sorted_streams, streams, spilling_stream,
                   eos, is_spilling, dep_ready, ready_to_read,
                   read_ready_count, finish_ready, sorter, bgVars,
                   dcheck_failed>>

\* ------------------------------------------------------------------ Next
Next ==
    \/ \E b \in Blocks, e \in BOOLEAN : SinkEnter(b, e)
    \/ \E f \in BOOLEAN : SinkIngest(f)
    \/ \E f \in BOOLEAN : SinkEos(f)
    \/ SinkRevoke
    \/ RevokeMemory
    \/ \E f \in BOOLEAN : RvRegister(f)
    \/ \E f \in BOOLEAN : RvPrepareSpill(f)
    \/ RvBlock
    \/ \E f \in BOOLEAN : RvSubmit(f)
    \/ \E f \in BOOLEAN : BgPrepareForSpill(f)
    \/ BgLoop
    \/ \E f \in BOOLEAN : BgRead(f)
    \/ \E f \in BOOLEAN : BgWrite(f)
    \/ BgReset
    \/ BgDeferEndSpill
    \/ BgDeferLocked
    \/ Close
    \/ CloseSpuriousWakeup
    \/ Cancel

Spec ==
    Init /\ [][Next]_vars

\* A step of a call in progress on the pipeline thread.
CallStep ==
    \/ \E f \in BOOLEAN : SinkIngest(f)
    \/ \E f \in BOOLEAN : SinkEos(f)
    \/ SinkRevoke
    \/ \E f \in BOOLEAN : RvRegister(f)
    \/ \E f \in BOOLEAN : RvPrepareSpill(f)
    \/ RvBlock
    \/ \E f \in BOOLEAN : RvSubmit(f)

\* A step of the closure on the spill io thread.
ClosureStep ==
    \/ \E f \in BOOLEAN : BgPrepareForSpill(f)
    \/ BgLoop
    \/ \E f \in BOOLEAN : BgRead(f)
    \/ \E f \in BOOLEAN : BgWrite(f)
    \/ BgReset
    \/ BgDeferEndSpill
    \/ BgDeferLocked

\* The same program where a call that has started runs on to its return and
\* a submitted closure runs on to the end of its cleanup.  The scheduler
\* owes no further call, and a wait on _spill_cv owes no spurious wakeup.
FairSpec ==
    Spec /\ WF_vars(CallStep) /\ WF_vars(ClosureStep)

\* ----------------------------------------------------------------- types
TypeOK ==
    /\ pc \in {"idle", "sink_ingest", "sink_eos", "sink_revoke",
               "rv_register", "rv_prepare", "rv_block", "rv_submit",
               "close_wait", "closed", "aborted"}
    /\ bg_pc \in {"none", "prepare", "loop", "read", "write", "reset",
                  "defer", "cleanup"}
    /\ in_block \in Blocks
    /\ ncalls \in 0..MaxCalls
    /\ Len(streams) <= MaxRuns
    /\ data_size(sorter) <= MaxSorterRows
    /\ spilling_stream \in {NoStream} \cup (1..Len(streams))

\* ------------------------------------------------------- helper notions
\* The ids on the shared run list.
ListedStreams ==
    {sorted_streams[i] : i \in 1..Len(sorted_streams)}

\* A closure has been submitted and has not finished its cleanup.
JobInFlight ==
    bg_pc # "none"

SetupErrs ==
    {RegisterErr, PrepareSpillErr}

DrainErrs ==
    {PrepareForSpillErr, ReadErr, WriteErr}

\* --------------------------------------------------------------- claims

\* C1: under the serialization contract (calls one at a time, no call while
\* the dependency is blocked) revoke_memory is never entered while
\* _is_spilling is true, so DCHECK(!_is_spilling) never fires and no second
\* closure is submitted beside one in flight.
C1_SingleFlight ==
    ~dcheck_failed

\* C2: when revoke_memory returns the error of register_spill_stream or of
\* prepare_spill, _is_spilling is false, no closure was submitted and,
\* unless at eos, the dependency is ready.
C2_SetupFailureRollback ==
    (pc = "idle" /\ ret \in SetupErrs)
        => (~is_spilling /\ ~JobInFlight /\ (~eos => dep_ready))

\* C3: once the cleanup of a closure whose drain failed has finished, the
\* shared run list is empty and sink_status carries the failure.
C3_FailureAtomicity ==
    (~JobInFlight /\ bg_exit = "error")
        => (sorted_streams = <<>> /\ sink_status \in DrainErrs)

\* C3 witness: a closure failed after writing at least one block, and its
\* cleanup is over.
C3_Witness ==
    /\ ~JobInFlight
    /\ bg_exit = "error"
    /\ bg_run # NoStream
    /\ Len(streams[bg_run].blocks) > 0
    /\ streams[bg_run].ended
    /\ sink_status \in {ReadErr, WriteErr}

\* C4: after the cleanup of a closure that left its loop by cancellation
\* with some blocks written, its run is finalized with a non-success status
\* and the run list is cleared.
C4_CancellationCleanup ==
    (~JobInFlight /\ bg_exit = "cancelled" /\ bg_run # NoStream)
        => (Len(streams[bg_run].blocks) > 0
              => (/\ streams[bg_run].ended
                  /\ streams[bg_run].status # OK
                  /\ sorted_streams = <<>>))

\* C5: with spill enabled the finish dependency is blocked initially, and
\* every step that releases it ends in a state where _eos is true, no spill
\* is in flight and the in-flight handle is released.
C5_FinishLatchSafety ==
    /\ (enable_spill => ~finish_ready)
    /\ [][(enable_spill /\ ~finish_ready /\ finish_ready')
             => (/\ eos'
                 /\ ~is_spilling'
                 /\ spilling_stream' = NoStream
                 /\ ~JobInFlight')]_vars

\* C5 witness: the finish dependency was released after an end-of-stream
\* spill.
C5_Witness ==
    /\ enable_spill
    /\ finish_ready
    /\ bg_exit # "none"
    /\ ~JobInFlight

\* C6: _eos never returns from true to false, and a sink call made when
\* _eos is already true does not hand its block to the sorter.
C6_EosSticky ==
    [][eos => (/\ eos'
               /\ (pc = "sink_ingest" /\ pc' # pc)
                     => sorter'.unsorted = sorter.unsorted)]_vars

\* C7: an error returned by the sorter in sink, or raised in the closure,
\* is stored in sink_status, and a call that starts while sink_status
\* carries a failure returns it without ingesting, registering or
\* submitting.
C7_ErrorLatching ==
    [][/\ (pc' = "idle" /\ ret' = SinkErr) => sink_status' = SinkErr
       /\ bg_exit' = "error" => sink_status' \in DrainErrs
       /\ (pc = "idle" /\ ncalls' = ncalls + 1 /\ sink_status # OK)
             => (/\ pc' = "idle"
                 /\ ret' = sink_status
                 /\ sorter' = sorter
                 /\ streams' = streams
                 /\ bg_pc' = bg_pc)]_vars

\* C8: every step that calls set_ready_to_read ends in a state whose
\* sink_status is success.
C8_ReadReadyImpliesOK ==
    [][read_ready_count' > read_ready_count => sink_status' = OK]_vars

C10_SubmitFailureRollback ==
    (pc = "idle" /\ ret = SubmitErr)
        => (/\ ~is_spilling
            /\ spilling_stream = NoStream
            /\ \A i \in 1..Len(streams) :
                 streams[i].status = SubmitErr => i \notin ListedStreams
            /\ (~eos => dep_ready))

\* Positions of the pipeline thread inside
\* SpillSortSinkLocalState::revoke_memory.
InRevoke ==
    pc \in {"rv_register", "rv_prepare", "rv_block", "rv_submit"}

\* C11: the run list grows only in a step of the closure on the io thread,
\* never in a step of the pipeline thread, and every run on the list has
\* been finalized with a success status (its drain completed).
C11_AppendDiscipline ==
    /\ [](\A i \in ListedStreams :
             streams[i].ended /\ streams[i].status = OK)
    /\ [][Len(sorted_streams') > Len(sorted_streams)
             => (bg_pc' # bg_pc /\ pc' = pc)]_vars

C13_RevocableMemSize ==
    /\ ~enable_spill => revocable_mem_size = 0
    /\ sink_status # OK => revocable_mem_size = UINT64_MAX
    /\ (enable_spill /\ sink_status = OK)
         => revocable_mem_size = get_revocable_mem_size(sorter)

\* C13 witness: the shared status carries a drain failure while the Sorter
\* still buffers rows, and the sentinel is reported.
C13_Witness ==
    /\ enable_spill
    /\ sink_status \in DrainErrs
    /\ data_size(sorter) > 0
    /\ get_revocable_mem_size(sorter) # UINT64_MAX
    /\ revocable_mem_size = UINT64_MAX

\* C14: a sink call made while the shared status carries a failure returns
\* that failure at once and leaves eos, spill_batch_row_count, the Sorter,
\* the run list, is_spilling and both latches unchanged.
C14_SinkShortCircuit ==
    [][(sink_status # OK /\ \E b \in Blocks, e \in BOOLEAN : SinkEnter(b, e))
          => /\ pc' = "idle"
             /\ ret' = sink_status
             /\ UNCHANGED <<eos, batch_row_count, sorter, sorted_streams,
                            streams, is_spilling, dep_ready, ready_to_read,
                            read_ready_count, finish_ready, sink_status>>]_vars

\* C14 witness: a sink call returned the latched drain failure while no
\* spill was marked or in flight.
C14_Witness ==
    /\ pc = "idle"
    /\ sink_status \in DrainErrs
    /\ ret = sink_status
    /\ ~is_spilling
    /\ ~JobInFlight
    /\ ~dcheck_failed

\* The rows of a sequence of blocks, in the order they were written.
RECURSIVE Flatten(_)
Flatten(bs) ==
    IF bs = <<>> THEN <<>> ELSE Head(bs) \o Flatten(Tail(bs))

\* The rows of run id as a reader of the stream gets them.
RunRows(id) ==
    Flatten(streams[id].blocks)

IsSorted(s) ==
    \A i \in 1..Len(s) - 1 : s[i] <= s[i + 1]

\* The merge by the sort key of the runs ids[1], ids[2], ...
RECURSIVE MergeRuns(_)
MergeRuns(ids) ==
    IF ids = <<>> THEN <<>>
    ELSE SortInto(MergeRuns(Tail(ids)), RunRows(Head(ids)))

\* The end-of-stream call has returned and every closure has finished, in a
\* run with spill enabled, no failure and no cancellation.
SpillRunComplete ==
    /\ input_log.clean
    /\ enable_spill
    /\ eos
    /\ pc = "idle"
    /\ ~is_spilling
    /\ ~JobInFlight

\* C15: order preservation.  With spill enabled, no failure and no
\* cancellation, once the end-of-stream call and all closures are over,
\* every run is finalized with success and internally sorted, the run list
\* holds the runs in the order their spills were triggered, nothing is left
\* in the Sorter, and the merge of all runs is the sorted sequence of all
\* rows passed to sink.
C15_OrderPreservation ==
    SpillRunComplete
        => /\ data_size(sorter) = 0
           /\ sorted_streams = [i \in 1..Len(streams) |-> i]
           /\ \A id \in ListedStreams :
                 /\ streams[id].ended
                 /\ streams[id].status = OK
                 /\ IsSorted(RunRows(id))
           /\ MergeRuns(sorted_streams) = input_log.rows

\* C15 witness: a complete clean run of two spills whose runs, taken in
\* spill order, are not in key order, so that the merge has to reorder.
C15_Witness ==
    /\ SpillRunComplete
    /\ Len(sorted_streams) = 2
    /\ RunRows(1) = <<2>>
    /\ RunRows(2) = <<1>>
    /\ input_log.rows = <<1, 2>>
    /\ finish_ready

\* C16: close returns only in a state where _is_spilling is false and no
\* closure is short of the end of its cleanup, also when the wait on
\* _spill_cv ends without a notification.
C16_TeardownWait ==
    [][(pc # "closed" /\ pc' = "closed")
          => (~is_spilling' /\ ~JobInFlight')]_vars

\* C17: if every submitted closure runs on to its cleanup, every call of
\* close returns, whatever sink / revoke_memory calls came before it,
\* including a revoke_memory that returned an error.
C17_TeardownTerminates ==
    (pc = "close_wait") ~> (pc = "closed")

\* C18: with spill enabled, once the sink call with eos set has returned
\* success and the closure submitted for it, if any, has run its cleanup,
\* the finish dependency is eventually set ready.
C18_FinishLatchLiveness ==
    (enable_spill /\ eos /\ pc = "idle" /\ ret = OK /\ sink_status = OK)
        ~> finish_ready

\* C19: whenever the pipeline thread is not inside revoke_memory (the
\* locked section of the Defer is one step), _spilling_stream holds a
\* stream if and only if _is_spilling is true.
C19_InFlightHandle ==
    (~InRevoke /\ ~dcheck_failed)
        => ((spilling_stream # NoStream) <=> is_spilling)

\* C20: whenever the pipeline thread is not inside revoke_memory,
\* _is_spilling is true only while a submitted closure has not finished its
\* cleanup; every return of revoke_memory with an error leaves it false.
C20_SpillingTracksJob ==
    /\ [][((InRevoke \/ pc = "sink_revoke") /\ pc' = "idle" /\ ret' # OK)
             => ~is_spilling']_vars
    /\ []((~InRevoke /\ ~dcheck_failed /\ is_spilling) => JobInFlight)

====
